---------------------------- MODULE Spec2Model ----------------------------
(***************************************************************************)
(* A model of issconsole.py: a click command group (chain=True) whose      *)
(* subcommands loc, pass and people each build a request, open it, decode  *)
(* the body as JSON and print a report, leaving the process through        *)
(* exit(-1) in one of four error helpers.                                  *)
(*                                                                         *)
(* JSON values are tagged records: Null, Num(n), Str(s), Map(m), List(l).  *)
(* A Python expression evaluates to Ok(v) or to Raise(type, msg); a block  *)
(* of statements evaluates to [out, exc, calls]: the lines it echoed, the  *)
(* exception that left it (NoExc when it ran to its end) and the error     *)
(* helpers it called.  Coordinates are whole degrees.  click.style is      *)
(* taken to convert a non-string text with str(), as click 8 does.         *)
(***************************************************************************)
EXTENDS Integers, Sequences, FiniteSets, TLC

VARIABLES pc, op, ncmd, lat, lon, url, response, body, obj, out,
          status, exitCode, requests, cmdRequests, stages, handlers, error

vars == <<pc, op, ncmd, lat, lon, url, response, body, obj, out,
          status, exitCode, requests, cmdRequests, stages, handlers, error>>

\* Bounds of the model.
MaxCmds == 2
MaxRows == 2

\* passing(): the accepted range of the coordinates.
LatMin == -80
LatMax == 80
LonMin == -180
LonMax == 180

LOCATION_URL == "http://api.open-notify.org/iss-now.json"
PASSING_URL == "http://api.open-notify.org/iss-pass.json"
PEOPLE_URL == "http://api.open-notify.org/astros.json"

---------------------------------------------------------------------------
\* JSON values and Python's operations on them.

Null == [t |-> "null"]
Num(n) == [t |-> "num", n |-> n]
Str(s) == [t |-> "str", s |-> s]
Map(m) == [t |-> "map", m |-> m]
List(l) == [t |-> "list", l |-> l]
Empty == [k \in {} |-> Null]

Ok(v) == [ok |-> TRUE, v |-> v]
Raise(type, msg) == [ok |-> FALSE, type |-> type, msg |-> msg]

NoExc == [type |-> "none", msg |-> ""]
SystemExit(code) == [type |-> "SystemExit", msg |-> ToString(code), code |-> code]
ExcOf(r) == [type |-> r.type, msg |-> r.msg]

Line(src, text) == [src |-> src, text |-> text]

\* v[key] for a string key.
Subscript(v, key) ==
  CASE v.t = "map" -> IF key \in DOMAIN v.m THEN Ok(v.m[key])
                      ELSE Raise("KeyError", "'" \o key \o "'")
    [] v.t = "list" -> Raise("TypeError", "list indices must be integers or slices, not str")
    [] v.t = "str" -> Raise("TypeError", "string indices must be integers")
    [] v.t = "num" -> Raise("TypeError", "'int' object is not subscriptable")
    [] v.t = "null" -> Raise("TypeError", "'NoneType' object is not subscriptable")

\* v[i] for an index i >= 0 drawn from range().  (No answer of the model
\* holds a string where a list is read, so a str is never indexed.)
Index(v, i) ==
  CASE v.t = "list" -> IF i < Len(v.l) THEN Ok(v.l[i + 1])
                       ELSE Raise("IndexError", "list index out of range")
    [] v.t = "map" -> Raise("KeyError", ToString(i))
    [] v.t = "num" -> Raise("TypeError", "'int' object is not subscriptable")
    [] v.t = "null" -> Raise("TypeError", "'NoneType' object is not subscriptable")

\* The integers whose decimal literal a string of the model can be.
IntRange == (-1 .. (MaxRows + 1)) \cup {300, 600, 90061}

\* int(v)
PyInt(v) ==
  CASE v.t = "num" -> Ok(v.n)
    [] v.t = "str" -> IF \E n \in IntRange : ToString(n) = v.s
                      THEN Ok(CHOOSE n \in IntRange : ToString(n) = v.s)
                      ELSE Raise("ValueError", "invalid literal for int() with base 10: '" \o v.s \o "'")
    [] OTHER -> Raise("TypeError", "int() argument must be a string, a bytes-like object or a real number")

\* str(v)
PyStr(v) ==
  CASE v.t = "num" -> ToString(v.n)
    [] v.t = "str" -> v.s
    [] v.t = "null" -> "None"
    [] v.t = "list" -> ToString(v.l)
    [] v.t = "map" -> ToString(v.m)

\* datetime.fromtimestamp(t), in a zone without offset, and str() of it.
fromtimestamp(t) == [days |-> t \div 86400, secs |-> t % 86400]
StrDatetime(d) ==
  "day " \o ToString(d.days) \o " " \o ToString(d.secs \div 3600) \o ":"
    \o ToString((d.secs % 3600) \div 60) \o ":" \o ToString(d.secs % 60)

\* 'text' + x: only a str can be added to a str.
StrAdd(s, x) ==
  IF x.t = "str" THEN Ok(s \o x.s)
  ELSE Raise("TypeError", "can only concatenate str (not \"" \o x.t \o "\") to str")

\* urllib.request.Request(url)
Request(full_url) == [t |-> "Request", full_url |-> full_url]

\* urllib.parse.urlencode of {'lat': .., 'lon': ..}
urlencode(la, lo) == "lat=" \o ToString(la) \o "&lon=" \o ToString(lo)

---------------------------------------------------------------------------
\* The error helpers: each echoes its report and leaves through exit(-1).

R(o, e, c) == [out |-> o, exc |-> e, calls |-> c]

\* request_error without its exit(-1): the report is echoed and control returns.
request_error_noexit(re) ==
  R(<<Line("request_error", <<re.msg>>)>>, NoExc, <<"request_error">>)

request_error(re) ==
  R(<<Line("request_error", <<re.msg>>)>>, SystemExit(-1), <<"request_error">>)

json_error(je) ==
  R(<<Line("json_error", <<je.msg>>), Line("json_error", <<je.doc>>),
      Line("json_error", <<ToString(je.pos)>>), Line("json_error", <<ToString(je.lineno)>>),
      Line("json_error", <<ToString(je.colno)>>)>>,
    SystemExit(-1), <<"json_error">>)

common_error(ce, o) ==
  R(<<Line("common_error", <<"Common error.", "Error type: " \o ce.type,
                            "Error: " \o ce.msg, "Data: " \o PyStr(o)>>)>>,
    SystemExit(-1), <<"common_error">>)

\* message_error without its exit(-1): the report is echoed and control returns.
message_error_noexit(o, u) ==
  IF o.m["message"] = Str("failure")
  THEN LET reason == Subscript(o, "reason") IN
       IF reason.ok
       THEN R(<<Line("message_error", <<PyStr(reason.v)>>)>>, NoExc, <<"message_error">>)
       ELSE R(<<>>, ExcOf(reason), <<"message_error">>)
  ELSE LET text == StrAdd("Unknown error. Url: ", u) IN
       IF text.ok
       THEN R(<<Line("message_error", <<text.v \o " Response: " \o PyStr(o)>>)>>,
              NoExc, <<"message_error">>)
       ELSE R(<<>>, ExcOf(text), <<"message_error">>)

\* u is what the caller passes as url: the Request object, not its text.
message_error(o, u) ==
  IF o.m["message"] = Str("failure")
  THEN LET reason == Subscript(o, "reason") IN
       IF reason.ok
       THEN R(<<Line("message_error", <<PyStr(reason.v)>>)>>, SystemExit(-1), <<"message_error">>)
       ELSE R(<<>>, ExcOf(reason), <<"message_error">>)
  ELSE LET text == StrAdd("Unknown error. Url: ", u) IN
       IF text.ok
       THEN R(<<Line("message_error", <<text.v \o " Response: " \o PyStr(o)>>)>>,
              SystemExit(-1), <<"message_error">>)
       ELSE R(<<>>, ExcOf(text), <<"message_error">>)

\* except (RuntimeError, TypeError, NameError, KeyError) as ce: common_error(ce, obj)
CaughtTypes == {"RuntimeError", "TypeError", "NameError", "KeyError"}

Except(r, o) ==
  IF r.exc.type \in CaughtTypes
  THEN LET h == common_error(r.exc, o) IN R(r.out \o h.out, h.exc, r.calls \o h.calls)
  ELSE r

\* The first of a chain of evaluations that raised, or the last one.
Sub2(o, k1, k2) == LET a == Subscript(o, k1) IN IF a.ok THEN Subscript(a.v, k2) ELSE a
Then(a, b) == IF a.ok THEN b ELSE a

Separator == Line("result", <<"----------------------------------------------">>)
TableRule == Line("result", <<"-----------------------+----------------------">>)
Row(a, b) == Line("result", <<"row", a, b>>)

---------------------------------------------------------------------------
\* location(): the try block and its except clause.

location_try(o, u) ==
  LET message == Subscript(o, "message") IN
  IF ~message.ok THEN R(<<>>, ExcOf(message), <<>>)
  ELSE IF message.v = Str("success")
  THEN LET ts == Subscript(o, "timestampss")
           timestamp == IF ts.ok THEN PyInt(ts.v) ELSE ts
           latitude == Then(timestamp, Sub2(o, "iss_position", "latitude"))
           longitude == Then(latitude, Sub2(o, "iss_position", "longitude"))
       IN IF ~longitude.ok THEN R(<<>>, ExcOf(longitude), <<>>)
          ELSE R(<<Line("result", <<"The ISS current location">>),
                   Line("result", <<"Time:", StrDatetime(fromtimestamp(timestamp.v))>>),
                   Line("result", <<"Latitude:", PyStr(latitude.v)>>),
                   Line("result", <<"Longitude:", PyStr(longitude.v)>>)>>, NoExc, <<>>)
  ELSE message_error(o, u)

\* passing_rows looping over range(passes - 1): the last row is left out.
RECURSIVE passing_rows_short(_, _, _, _)
passing_rows_short(o, x, passes, o_) ==
  IF x + 1 >= passes THEN R(o_, NoExc, <<>>)
  ELSE LET resp == Subscript(o, "response")
           entry == IF resp.ok THEN Index(resp.v, x) ELSE resp
           duration == IF entry.ok THEN Subscript(entry.v, "duration") ELSE entry
           rt == IF duration.ok THEN Subscript(entry.v, "risetime") ELSE duration
           risetime == IF rt.ok THEN PyInt(rt.v) ELSE rt
       IN IF ~risetime.ok THEN R(o_, ExcOf(risetime), <<>>)
          ELSE passing_rows_short(o, x + 1, passes,
                 Append(o_, Row(PyStr(duration.v), StrDatetime(fromtimestamp(risetime.v)))))

\* passing(): the rows of the table, from row x on, after the lines in o_.
RECURSIVE passing_rows(_, _, _, _)
passing_rows(o, x, passes, o_) ==
  IF x >= passes THEN R(o_, NoExc, <<>>)
  ELSE LET resp == Subscript(o, "response")
           entry == IF resp.ok THEN Index(resp.v, x) ELSE resp
           duration == IF entry.ok THEN Subscript(entry.v, "duration") ELSE entry
           rt == IF duration.ok THEN Subscript(entry.v, "risetime") ELSE duration
           risetime == IF rt.ok THEN PyInt(rt.v) ELSE rt
       IN IF ~risetime.ok THEN R(o_, ExcOf(risetime), <<>>)
          ELSE passing_rows(o, x + 1, passes,
                 Append(o_, Row(PyStr(duration.v), StrDatetime(fromtimestamp(risetime.v)))))

passing_try(o, u) ==
  LET message == Subscript(o, "message") IN
  IF ~message.ok THEN R(<<>>, ExcOf(message), <<>>)
  ELSE IF message.v = Str("success")
  THEN LET latitude == Sub2(o, "request", "latitude")
           longitude == Then(latitude, Sub2(o, "request", "longitude"))
           ps == Then(longitude, Sub2(o, "request", "passes"))
           passes == IF ps.ok THEN PyInt(ps.v) ELSE ps
       IN IF ~passes.ok THEN R(<<>>, ExcOf(passes), <<>>)
          ELSE LET head == <<Line("result", <<"The ISS will be overhead">>),
                             Line("result", <<"Latitude:", PyStr(latitude.v)>>),
                             Line("result", <<"Longitude:", PyStr(longitude.v)>>),
                             Line("result", <<"Passes:", ToString(passes.v)>>),
                             Separator,
                             Line("result", <<"| Duration             | Risetime            |">>),
                             TableRule>>
                   rows == passing_rows(o, 0, passes.v, head)
               IN IF rows.exc = NoExc THEN R(Append(rows.out, Separator), NoExc, <<>>)
                  ELSE rows
  ELSE message_error(o, u)

\* people(): the rows of the table, from row i on.
RECURSIVE people_rows(_, _, _, _)
people_rows(o, i, number, o_) ==
  IF i >= number THEN R(o_, NoExc, <<>>)
  ELSE LET ppl == Subscript(o, "people")
           entry == IF ppl.ok THEN Index(ppl.v, i) ELSE ppl
           person == IF entry.ok THEN Subscript(entry.v, "name") ELSE entry
           craft == IF person.ok THEN Subscript(entry.v, "craft") ELSE person
       IN IF ~craft.ok THEN R(o_, ExcOf(craft), <<>>)
          ELSE people_rows(o, i + 1, number, Append(o_, Row(PyStr(person.v), PyStr(craft.v))))

people_try(o, u) ==
  LET message == Subscript(o, "message") IN
  IF ~message.ok THEN R(<<>>, ExcOf(message), <<>>)
  ELSE IF message.v = Str("success")
  THEN LET nr == Subscript(o, "number")
           number == IF nr.ok THEN PyInt(nr.v) ELSE nr
       IN IF ~number.ok THEN R(<<>>, ExcOf(number), <<>>)
          ELSE LET head == <<Line("result", <<"The people now on the Space">>),
                             Separator,
                             Line("result", <<"| Name                 | Craft               |">>),
                             TableRule>>
                   rows == people_rows(o, 0, number.v, head)
               IN IF rows.exc = NoExc THEN R(Append(rows.out, Separator), NoExc, <<>>)
                  ELSE rows
  ELSE message_error(o, u)

\* passing_check with <= and >= for < and >: the bounds themselves are refused.
passing_check_inclusive(latitide, longitude) ==
  IF latitide <= LatMin \/ latitide >= LatMax
  THEN R(<<Line("passing", <<"Latitude must be number between -80.0 and 80.0">>)>>,
         SystemExit(-1), <<>>)
  ELSE IF longitude <= LonMin \/ longitude >= LonMax
  THEN R(<<Line("passing", <<"Longitude must be number between -180.0 and 180.0">>)>>,
         SystemExit(-1), <<>>)
  ELSE R(<<>>, NoExc, <<>>)

\* passing_check without its exit(-1): the message is echoed and the request follows.
passing_check_noexit(latitide, longitude) ==
  IF latitide < LatMin \/ latitide > LatMax
  THEN R(<<Line("passing", <<"Latitude must be number between -80.0 and 80.0">>)>>,
         NoExc, <<>>)
  ELSE IF longitude < LonMin \/ longitude > LonMax
  THEN R(<<Line("passing", <<"Longitude must be number between -180.0 and 180.0">>)>>,
         NoExc, <<>>)
  ELSE R(<<>>, NoExc, <<>>)

\* passing(): the range checks made before the request is built.
passing_check(latitide, longitude) ==
  IF latitide < LatMin \/ latitide > LatMax
  THEN R(<<Line("passing", <<"Latitude must be number between -80.0 and 80.0">>)>>,
         SystemExit(-1), <<>>)
  ELSE IF longitude < LonMin \/ longitude > LonMax
  THEN R(<<Line("passing", <<"Longitude must be number between -180.0 and 180.0">>)>>,
         SystemExit(-1), <<>>)
  ELSE R(<<>>, NoExc, <<>>)

\* json.loads(response.read()): the body is undecodable bytes, malformed text
\* or the text of a JSON value.
json_loads(b) ==
  CASE b.k = "json" -> Ok(b.obj)
    [] b.k = "malformed" -> [ok |-> FALSE, type |-> "JSONDecodeError", msg |-> "Expecting value",
                             doc |-> b.doc, pos |-> 0, lineno |-> 1, colno |-> 1]
    [] b.k = "undecodable" -> Raise("UnicodeDecodeError", "'utf-8' codec can't decode byte 0xff")

---------------------------------------------------------------------------
\* What the service may answer.

SeqsUpTo(S, n) == UNION {[1..k -> S] : k \in 0..n}

MsgParts ==
  {Empty, [message |-> Str("success")], [message |-> Str("failure")],
   [message |-> Str("failure"), reason |-> Str("Latitude must be number between -90.0 and 90.0")],
   [message |-> Str("pending")]}

NonMaps == {Null, Num(7), List(<<>>), Str("ok")}

Counts == {Num(c) : c \in -1..MaxRows} \cup {Str("1"), Str("two"), Null}

TsParts ==
  {Empty, [timestampss |-> Num(90061)], [timestampss |-> Str("1")],
   [timestampss |-> Str("soon")], [timestampss |-> Null], [timestamp |-> Num(90061)]}

PosParts ==
  {Empty, [iss_position |-> Null],
   [iss_position |-> Map([latitude |-> Str("10.1"), longitude |-> Str("-20.2")])],
   [iss_position |-> Map([latitude |-> Str("10.1")])],
   [iss_position |-> Map([longitude |-> Str("-20.2")])]}

LocationObjs == NonMaps \cup {Map(a @@ b @@ c) : a \in MsgParts, b \in TsParts, c \in PosParts}

RequestParts ==
  {Empty, [request |-> Null],
   [request |-> Map([longitude |-> Num(20), passes |-> Num(1)])],
   [request |-> Map([latitude |-> Num(10), passes |-> Num(1)])],
   [request |-> Map([latitude |-> Num(10), longitude |-> Num(20)])]}
  \cup {[request |-> Map([latitude |-> Num(10), longitude |-> Num(20), passes |-> c])] : c \in Counts}

PassEvents ==
  {Map([duration |-> Num(300), risetime |-> Num(90061)]),
   Map([duration |-> Num(600), risetime |-> Str("1")]),
   Map([risetime |-> Num(90061)]),
   Map([duration |-> Num(300)]),
   Map([duration |-> Num(300), risetime |-> Str("soon")]),
   Null}

ResponseParts ==
  {Empty, [response |-> Null]} \cup {[response |-> List(l)] : l \in SeqsUpTo(PassEvents, MaxRows)}

PassingObjs == NonMaps \cup {Map(a @@ b @@ c) : a \in MsgParts, b \in RequestParts, c \in ResponseParts}

NumberParts == {Empty} \cup {[number |-> c] : c \in Counts}

Persons ==
  {Map([name |-> Str("Ann"), craft |-> Str("ISS")]),
   Map([name |-> Str("Bo"), craft |-> Str("Tiangong")]),
   Map([craft |-> Str("ISS")]),
   Map([name |-> Str("Ann")]),
   Null}

PeopleParts ==
  {Empty, [people |-> Null]} \cup {[people |-> List(l)] : l \in SeqsUpTo(Persons, MaxRows)}

PeopleObjs == NonMaps \cup {Map(a @@ b @@ c) : a \in MsgParts, b \in NumberParts, c \in PeopleParts}

Objs(o) ==
  CASE o = "loc" -> LocationObjs
    [] o = "pass" -> PassingObjs
    [] o = "people" -> PeopleObjs

Bodies(o) ==
  {[k |-> "undecodable"], [k |-> "malformed", doc |-> "{oops"]}
  \cup {[k |-> "json", obj |-> x] : x \in Objs(o)}

\* urlopen(url): an HTTP response, or URLError with its reason.
Network == {[ok |-> TRUE], Raise("URLError", "timed out")}

\* --lat and --lon: the default 0.0, the bounds and their neighbours outside.
Lats == {LatMin - 1, LatMin, 0, LatMax, LatMax + 1}
Lons == {LonMin - 1, LonMin, 0, LonMax, LonMax + 1}

---------------------------------------------------------------------------
\* The process.

Init ==
  /\ pc = "dispatch"
  /\ op = "none"
  /\ ncmd = 0
  /\ lat = 0
  /\ lon = 0
  /\ url = Str("")
  /\ response = Str("")
  /\ body = [k |-> "none"]
  /\ obj = Null
  /\ out = <<>>
  /\ status = "running"
  /\ exitCode = 0
  /\ requests = 0
  /\ cmdRequests = 0
  /\ stages = <<>>
  /\ handlers = <<>>
  /\ error = NoExc

\* How a block that ended as r leaves: to the next statement, through
\* SystemExit, or with an exception nothing catches (traceback, status 1).
Leave(r, next) ==
  /\ out' = out \o r.out
  /\ handlers' = handlers \o r.calls
  /\ pc' = IF r.exc.type = "none" THEN next ELSE "exited"
  /\ status' = CASE r.exc.type = "none" -> status
                 [] r.exc.type = "SystemExit" -> "exit"
                 [] OTHER -> "traceback"
  /\ exitCode' = CASE r.exc.type = "none" -> exitCode
                   [] r.exc.type = "SystemExit" -> r.exc.code
                   [] OTHER -> 1

\* A subcommand begins: ISSSpaceStation(la, lo) and the state of its method.
Begin(o, la, lo, first) ==
  /\ ncmd' = ncmd + 1
  /\ op' = o
  /\ lat' = la
  /\ lon' = lo
  /\ pc' = first
  /\ url' = Str("")
  /\ response' = Str("")
  /\ body' = [k |-> "none"]
  /\ obj' = Null
  /\ out' = <<>>
  /\ cmdRequests' = 0
  /\ stages' = <<>>
  /\ handlers' = <<>>
  /\ error' = NoExc
  /\ UNCHANGED <<status, exitCode, requests>>

\* The group invokes the next subcommand of the command line.
make_loc ==
  /\ pc = "dispatch"
  /\ ncmd < MaxCmds
  /\ Begin("loc", 0, 0, "request")

make_passing(la, lo) ==
  /\ pc = "dispatch"
  /\ ncmd < MaxCmds
  /\ Begin("pass", la, lo, "validate")

make_people ==
  /\ pc = "dispatch"
  /\ ncmd < MaxCmds
  /\ Begin("people", 0, 0, "request")

\* passing(): the two range checks.
Validate ==
  /\ pc = "validate"
  /\ stages' = Append(stages, "validate")
  /\ Leave(passing_check(lat, lon), "request")
  /\ UNCHANGED <<op, ncmd, lat, lon, url, response, body, obj, requests, cmdRequests, error>>

UrlText(o, la, lo) ==
  CASE o = "loc" -> LOCATION_URL
    [] o = "pass" -> PASSING_URL \o "?" \o urlencode(la, lo)
    [] o = "people" -> PEOPLE_URL

\* url = Request(..); response = ""; try: response = urlopen(url)
\* except URLError as re: request_error(re)
Open ==
  /\ pc = "request"
  /\ \E net \in Network :
       /\ url' = Request(UrlText(op, lat, lon))
       /\ requests' = requests + 1
       /\ cmdRequests' = cmdRequests + 1
       /\ stages' = Append(stages, "request")
       /\ response' = IF net.ok THEN [t |-> "HTTPResponse"] ELSE Str("")
       /\ error' = IF net.ok THEN error ELSE ExcOf(net)
       /\ Leave(IF net.ok THEN R(<<>>, NoExc, <<>>) ELSE request_error(net), "parse")
  /\ UNCHANGED <<op, ncmd, lat, lon, body, obj>>

\* obj = None; try: obj = json.loads(response.read())
\* except JSONDecodeError as je: json_error(je)
Parse ==
  /\ pc = "parse"
  /\ \E b \in Bodies(op) :
       LET r == IF response.t = "HTTPResponse" THEN json_loads(b)
                ELSE Raise("AttributeError", "'str' object has no attribute 'read'")
       IN /\ body' = IF response.t = "HTTPResponse" THEN b ELSE body
          /\ obj' = IF r.ok THEN r.v ELSE Null
          /\ stages' = Append(stages, "parse")
          /\ error' = IF r.ok THEN error ELSE ExcOf(r)
          /\ Leave(CASE r.ok -> R(<<>>, NoExc, <<>>)
                     [] ~r.ok /\ r.type = "JSONDecodeError" -> json_error(r)
                     [] OTHER -> R(<<>>, ExcOf(r), <<>>),
                   "present")
  /\ UNCHANGED <<op, ncmd, lat, lon, url, response, requests, cmdRequests>>

TryBlock(o, ob, u) ==
  CASE o = "loc" -> location_try(ob, u)
    [] o = "pass" -> passing_try(ob, u)
    [] o = "people" -> people_try(ob, u)

\* The try block of the operation and its except clause.
Present ==
  /\ pc = "present"
  /\ LET r == TryBlock(op, obj, url) IN
       /\ stages' = Append(stages, "present")
       /\ error' = IF r.exc.type \in {"none", "SystemExit"} THEN error ELSE r.exc
       /\ Leave(Except(r, obj), "dispatch")
  /\ UNCHANGED <<op, ncmd, lat, lon, url, response, body, obj, requests, cmdRequests>>

\* Every subcommand of the command line has returned: click leaves with 0.
\* (A command line without a subcommand runs no operation: click prints
\* the usage text.  It is left out.)
Finish ==
  /\ pc = "dispatch"
  /\ ncmd >= 1
  /\ pc' = "exited"
  /\ status' = "exit"
  /\ exitCode' = 0
  /\ UNCHANGED <<op, ncmd, lat, lon, url, response, body, obj, out, requests,
                 cmdRequests, stages, handlers, error>>

Next ==
  \/ make_loc
  \/ \E la \in Lats, lo \in Lons : make_passing(la, lo)
  \/ make_people
  \/ Validate
  \/ Open
  \/ Parse
  \/ Present
  \/ Finish

Spec == Init /\ [][Next]_vars

---------------------------------------------------------------------------
\* Vocabulary of the properties.

Range(s) == {s[i] : i \in 1..Len(s)}
Last(s) == s[Len(s)]
IsPrefix(s, t) == Len(s) <= Len(t) /\ \A i \in 1..Len(s) : s[i] = t[i]

ResultLines == {i \in 1..Len(out) : out[i].src = "result"}
ErrorLines == {i \in 1..Len(out) : out[i].src # "result"}
IsRow(l) == l.src = "result" /\ l.text[1] = "row"
TableRows == SelectSeq(out, IsRow)

Presented == "present" \in Range(stages)
Finished == status # "running"
ExitedNonZero == status = "exit" /\ exitCode # 0
Succeeded == error = NoExc /\ handlers = <<>> /\ ErrorLines = {}

HasMessage == obj.t = "map" /\ "message" \in DOMAIN obj.m
Has(v, keys) == v.t = "map" /\ keys \subseteq DOMAIN v.m

---------------------------------------------------------------------------
\* C1: passing(lat, lon) with lat outside [-80, 80] or lon outside
\* [-180, 180] echoes one validation message and exits non-zero without any
\* request having been issued by that call; coordinates on the bounds are
\* accepted and the call goes on to its request.
OutOfRange == lat < -80 \/ lat > 80 \/ lon < -180 \/ lon > 180

C1_Validation ==
  (op = "pass" /\ "validate" \in Range(stages)) =>
    IF OutOfRange
    THEN /\ ExitedNonZero
         /\ pc = "exited"
         /\ cmdRequests = 0
         /\ stages = <<"validate">>
         /\ Len(out) = 1
         /\ out[1].src = "passing"
    ELSE /\ ErrorLines = {} \/ cmdRequests = 1
         /\ (pc = "request" /\ status = "running") \/ cmdRequests = 1

C1_Witness ==
  /\ op = "pass"
  /\ lat = 81
  /\ status = "exit"
  /\ exitCode = -1
  /\ cmdRequests = 0
  /\ Len(out) = 1

\* C2: a finished run has exit code 0 exactly when the operation succeeded,
\* and every error ends it with exit code -1 through exit(), never through
\* another path or code.
C2_ExitCodes ==
  Finished =>
    /\ exitCode = 0 <=> Succeeded
    /\ ~Succeeded => (status = "exit" /\ exitCode = -1)

\* C3: a parsed response whose message is "failure" ends the operation
\* non-zero with no result line printed, and when the response carries a
\* reason the output is that reason, verbatim, and nothing else.
IsFailure == HasMessage /\ obj.m["message"] = Str("failure")

C3_Failure ==
  (Presented /\ IsFailure) =>
    /\ ExitedNonZero
    /\ ResultLines = {}
    /\ "reason" \in DOMAIN obj.m =>
         /\ out = <<Line("message_error", <<obj.m["reason"].s>>)>>
         /\ handlers = <<"message_error">>

C3_Witness ==
  /\ op = "pass"
  /\ Presented
  /\ IsFailure
  /\ "reason" \in DOMAIN obj.m
  /\ Len(out) = 1
  /\ status = "exit"

\* C4: a body that is not decodable as JSON (malformed text or undecodable
\* bytes) is reported by json_error, which ends the run non-zero; no
\* exception goes unhandled and the presenter is not reached.
C4_Decode ==
  ("parse" \in Range(stages) /\ body.k \in {"malformed", "undecodable"}) =>
    /\ handlers = <<"json_error">>
    /\ ExitedNonZero
    /\ ~Presented

\* C5: a successful passing (people) response that declares N rows and
\* lists N well-formed entries prints exactly N table rows, row i showing
\* entry i, in the order of the list.
Entries(key) == obj.m[key].l

WellFormedPassing ==
  /\ Has(obj, {"message", "request", "response"})
  /\ obj.m["message"] = Str("success")
  /\ Has(obj.m["request"], {"latitude", "longitude", "passes"})
  /\ obj.m["response"].t = "list"
  /\ PyInt(obj.m["request"].m["passes"]).ok
  /\ PyInt(obj.m["request"].m["passes"]).v = Len(Entries("response"))
  /\ \A i \in 1..Len(Entries("response")) :
       /\ Has(Entries("response")[i], {"duration", "risetime"})
       /\ PyInt(Entries("response")[i].m["risetime"]).ok

WellFormedPeople ==
  /\ Has(obj, {"message", "number", "people"})
  /\ obj.m["message"] = Str("success")
  /\ obj.m["people"].t = "list"
  /\ PyInt(obj.m["number"]).ok
  /\ PyInt(obj.m["number"]).v = Len(Entries("people"))
  /\ \A i \in 1..Len(Entries("people")) : Has(Entries("people")[i], {"name", "craft"})

C5_Rows ==
  /\ (op = "pass" /\ Presented /\ WellFormedPassing) =>
       /\ Succeeded
       /\ TableRows =
            [i \in 1..Len(Entries("response")) |->
               Row(PyStr(Entries("response")[i].m["duration"]),
                   StrDatetime(fromtimestamp(PyInt(Entries("response")[i].m["risetime"]).v)))]
  /\ (op = "people" /\ Presented /\ WellFormedPeople) =>
       /\ Succeeded
       /\ TableRows =
            [i \in 1..Len(Entries("people")) |->
               Row(Entries("people")[i].m["name"].s, Entries("people")[i].m["craft"].s)]

C5_Witness ==
  /\ op = "pass"
  /\ Presented
  /\ WellFormedPassing
  /\ Len(Entries("response")) = 2
  /\ Entries("response")[1] # Entries("response")[2]
  /\ Len(TableRows) = 2

\* C6 as stated: every finished invocation has issued exactly one request.
C6_ExactlyOne == Finished => requests = 1

\* C6, amended: every subcommand that runs issues exactly one request, at
\* its request stage, except a pass subcommand refused by validation,
\* which issues none; the subcommands before it each issued one.
ValidationFailed == \E i \in 1..Len(out) : out[i].src = "passing"

C6_PerCommand ==
  /\ cmdRequests \in {0, 1}
  /\ cmdRequests = 1 <=> "request" \in Range(stages)
  /\ requests = IF ncmd = 0 THEN 0 ELSE (ncmd - 1) + cmdRequests
  /\ ValidationFailed => cmdRequests = 0
  /\ (Finished /\ cmdRequests = 0) => ValidationFailed

C6_Witness ==
  /\ ncmd = 2
  /\ requests = 2
  /\ status = "exit"
  /\ exitCode = 0

\* C7: a run that reports an error, or dies of one, has printed no result
\* line: result output and error output never occur in the same run.
C7_NoPartial == (ErrorLines # {} \/ status = "traceback") => ResultLines = {}

\* C8: a parsed value that is no mapping, or has no message key, or has
\* message "success" and lacks an expected key, ends in common_error, which
\* reports the whole parsed object, and the run exits non-zero.
KeyAbsent ==
  CASE op = "loc" ->
         \/ ~Has(obj, {"timestampss", "iss_position"})
         \/ /\ obj.m["iss_position"].t = "map"
            /\ ~Has(obj.m["iss_position"], {"latitude", "longitude"})
    [] op = "pass" ->
         \/ ~Has(obj, {"request", "response"})
         \/ /\ obj.m["request"].t = "map"
            /\ ~Has(obj.m["request"], {"latitude", "longitude", "passes"})
         \/ /\ obj.m["response"].t = "list"
            /\ \E i \in 1..Len(Entries("response")) :
                 /\ Entries("response")[i].t = "map"
                 /\ ~Has(Entries("response")[i], {"duration", "risetime"})
    [] op = "people" ->
         \/ ~Has(obj, {"number", "people"})
         \/ /\ obj.m["people"].t = "list"
            /\ \E i \in 1..Len(Entries("people")) :
                 /\ Entries("people")[i].t = "map"
                 /\ ~Has(Entries("people")[i], {"name", "craft"})

SchemaViolation ==
  \/ ~HasMessage
  \/ obj.m["message"] = Str("success") /\ KeyAbsent

C8_Schema ==
  (Presented /\ SchemaViolation) =>
    /\ handlers = <<"common_error">>
    /\ ExitedNonZero
    /\ Last(out).src = "common_error"

\* C9: a message that is neither "success" nor "failure" is reported by
\* message_error as an unknown error and ends the run non-zero; it is never
\* reported through common_error.
C9_Unknown ==
  (Presented /\ HasMessage /\ obj.m["message"] \notin {Str("success"), Str("failure")}) =>
    /\ handlers = <<"message_error">>
    /\ ExitedNonZero
    /\ Len(out) = 1
    /\ out[1].src = "message_error"

\* C10: the stages of an operation run once each in the order validate
\* (pass only), request, parse, present; after a transport error nothing is
\* read, parsed or presented, after a decode error nothing is presented,
\* and once an error has been raised or reported the process has ended and
\* takes no further step.
StageOrder ==
  IF op = "pass" THEN <<"validate", "request", "parse", "present">>
  ELSE <<"request", "parse", "present">>

C10_Order ==
  /\ op # "none" => IsPrefix(stages, StageOrder)
  /\ error.type = "URLError" =>
       /\ Last(stages) = "request"
       /\ body.k = "none"
       /\ obj = Null
       /\ ResultLines = {}
  /\ error.type \in {"JSONDecodeError", "UnicodeDecodeError"} =>
       /\ Last(stages) = "parse"
       /\ ResultLines = {}
  /\ (error # NoExc \/ handlers # <<>> \/ ErrorLines # {}) => Finished
  /\ Finished => (pc = "exited" /\ ~ENABLED Next)

C10_Witness ==
  /\ op = "loc"
  /\ ncmd = 1
  /\ error.type = "URLError"
  /\ handlers = <<"request_error">>
  /\ pc = "exited"

===========================================================================
